---- MODULE Spec2Model ----
(***************************************************************************)
(* State-machine model of lz4_stream (include/lz4_stream.h):               *)
(*   basic_ostream<SrcBufSize>::output_buffer  - the compressing sink      *)
(*   basic_istream<SrcBufSize, DestBufSize>::input_buffer - the            *)
(*                                               decompressing source      *)
(* The LZ4 frame codec (lz4frame.h) is an external library; it is modelled *)
(* by its streaming contract: a frame is a header, length-prefixed blocks  *)
(* and an end mark (a block length of zero).                               *)
(***************************************************************************)
EXTENDS Integers, Sequences, FiniteSets, TLC

\* ------------------------------------------------------------------ bounds
\* template parameter SrcBufSize of basic_ostream (256 by default)
OSrcBufSize == 3
\* template parameters SrcBufSize / DestBufSize of basic_istream
ISrcBufSize == 3
IDestBufSize == 2
\* block size of the encoder session (64 KB by default in lz4frame)
BlockSize == 2
\* how many operations of each kind the caller performs on the sink adapter
MaxWrites == 3
MaxFlushes == 1
MaxCloses == 2

\* the raw bytes a caller writes
Byte == {1, 2}

\* ------------------------------------------------------- codec wire bytes
\* first and second byte of the frame header written by LZ4F_compressBegin
Magic == 9
Flg == 8
\* the block length that ends a frame, written by LZ4F_compressEnd
EndMark == 0

VARIABLES
    ndebug,           \* the build: "yes" when assert() is compiled out, "either" while no
                      \* assert has told a checked build from an unchecked one
    olife,            \* basic_ostream: "none", "alive", "ctor_failed", "destroyed", "dead"
    m_closed,         \* output_buffer::m_closed
    m_context,        \* output_buffer::m_context: [st, tmp] the encoder session
    m_sourceBuffer,   \* output_buffer::m_sourceBuffer between pbase() and pptr()
    sink,             \* the bytes m_sink has received
    accepted,         \* history: raw bytes stored into the put area before close
    late,             \* history: raw bytes stored into the put area after close
    fed,              \* history: raw bytes handed to successful LZ4F_compressUpdate calls
    calls,            \* history: the codec operations on the encoder session, in order
    ofailed,          \* history: how many exceptions have left an output_buffer operation
    ocnt,             \* history: [w, f, c] operations performed by the caller
    oev,              \* the most recent sink-adapter operation: [tick, act, ops]
    ilife,            \* basic_istream: "none", "alive", "ctor_failed", "destroyed"
    m_source,         \* the upstream std::istream: [data, fail] bytes left and failbit
    sourceBuffer,     \* input_buffer::sourceBuffer, the bytes of the last upstream read
    m_offset,         \* input_buffer::m_offset
    m_sourceBufferSize, \* input_buffer::m_sourceBufferSize
    m_dcontext,       \* input_buffer::m_context: [st, stage, rem] the decoder session
    gview,            \* the get area between gptr() and egptr()
    rpc,              \* "idle", or "pull" inside the loop of underflow
    ires,             \* how the last read ended: "none", "byte", "eof", "error"
    decoded,          \* history: the bytes the reads have returned
    dfed,             \* history: the source bytes the decoder has consumed
    ihist,            \* history of the source adapter: [complete, short, eofs, errs]: the stream
                      \* is a whole frame, a read came short before the end, reads that
                      \* returned end-of-stream (counted up to 2), errors reported
    iev               \* the most recent source-adapter step: [tick, act, ops]

ovars == <<ndebug, olife, m_closed, m_context, m_sourceBuffer, sink, accepted,
           late, fed, calls, ofailed, ocnt, oev>>

ivars == <<ilife, m_source, sourceBuffer, m_offset, m_sourceBufferSize, m_dcontext,
           gview, rpc, ires, decoded, dfed, ihist, iev>>

vars == <<ovars, ivars>>

\* ------------------------------------------------------------- sequences
Count(s, x) == Cardinality({i \in 1..Len(s) : s[i] = x})

IsPrefix(p, s) == Len(p) <= Len(s) /\ SubSeq(s, 1, Len(p)) = p

\* one interaction of an operation with a collaborator
Op(o, a, r, e) == [op |-> o, arg |-> a, ret |-> r, err |-> e]

OpsOf(ops, o) == SelectSeq(ops, LAMBDA x : x.op = o)

\* ------------------------------------------------------------ the encoder
\* LZ4F_compressBegin: the frame header
Header == <<Magic, Flg>>

\* LZ4F_compressUpdate on a session holding tmp: the input is appended to the
\* session's block buffer; every full block is emitted, the rest stays buffered
RECURSIVE EmitBlocks(_)
EmitBlocks(all) ==
    IF Len(all) < BlockSize THEN [out |-> <<>>, tmp |-> all]
    ELSE LET r == EmitBlocks(SubSeq(all, BlockSize + 1, Len(all)))
         IN  [out |-> <<BlockSize>> \o SubSeq(all, 1, BlockSize) \o r.out, tmp |-> r.tmp]

LZ4F_compressUpdate(tmp, src) == EmitBlocks(tmp \o src)

\* LZ4F_compressEnd: the buffered rest as a last block, then the end mark
LZ4F_compressEnd(tmp) ==
    (IF tmp = <<>> THEN <<>> ELSE <<Len(tmp)>> \o tmp) \o <<EndMark>>

\* LZ4F_compressBound(srcSize, NULL): the largest output of one update or end
\* call for srcSize input bytes on top of a nearly full block buffer
LZ4F_compressBound(n) == (n + BlockSize - 1) + ((n + BlockSize - 1) \div BlockSize) + 2

NoContext == [st |-> "null", tmp |-> <<>>]

\* the capacity of m_destinationBuffer, the output buffer handed to
\* LZ4F_compressBegin, LZ4F_compressUpdate and LZ4F_compressEnd: the vector is
\* constructed with LZ4F_compressBound(m_sourceBuffer.size(), nullptr) elements
DestinationBufferRawSize == OSrcBufSize
m_destinationBuffer == LZ4F_compressBound(OSrcBufSize)

\* ------------------------------------------------- the compressing sink
\* setp(base, base + m_sourceBuffer.size() - 1): the put area keeps one slot
\* of m_sourceBuffer in reserve for the character that overflows
PutAreaNoReserve == OSrcBufSize
PutArea == OSrcBufSize - 1

\* the outcomes of LZ4F_isError
Errs == BOOLEAN

OTick(a, ops) == [tick |-> 1 - oev.tick, act |-> a, ops |-> ops]

\* CompressAndWrite that returns at once when the put area is empty
CompressAndWriteIfAny(buf, ctx, e) ==
    LET r == LZ4F_compressUpdate(ctx.tmp, buf)
    IN  IF buf = <<>>
        THEN [ok |-> TRUE, ctx |-> ctx, out |-> <<>>, fed |-> <<>>, ops |-> <<>>]
        ELSE IF e
        THEN [ok |-> FALSE, ctx |-> ctx, out |-> <<>>, fed |-> <<>>,
              ops |-> <<Op("update", buf, <<>>, TRUE)>>]
        ELSE [ok |-> TRUE, ctx |-> [ctx EXCEPT !.tmp = r.tmp], out |-> r.out, fed |-> buf,
              ops |-> <<Op("update", buf, r.out, FALSE), Op("sink", r.out, <<>>, FALSE)>>]

\* CompressAndWrite without its m_sink.write: the encoder's output is dropped
CompressAndWriteNoSink(buf, ctx, e) ==
    LET r == LZ4F_compressUpdate(ctx.tmp, buf)
    IN  IF e
        THEN [ok |-> FALSE, ctx |-> ctx, out |-> <<>>, fed |-> <<>>,
              ops |-> <<Op("update", buf, <<>>, TRUE)>>]
        ELSE [ok |-> TRUE, ctx |-> [ctx EXCEPT !.tmp = r.tmp], out |-> <<>>, fed |-> buf,
              ops |-> <<Op("update", buf, r.out, FALSE)>>]

\* CompressAndWrite on a live session: pbump(-orig_size), LZ4F_compressUpdate
\* over [pbase, pbase + orig_size), then m_sink.write of the result, or a throw
\* (e: the codec reports an error)
CompressAndWrite(buf, ctx, e) ==
    LET r == LZ4F_compressUpdate(ctx.tmp, buf)
    IN  IF e
        THEN [ok |-> FALSE, ctx |-> ctx, out |-> <<>>, fed |-> <<>>,
              ops |-> <<Op("update", buf, <<>>, TRUE)>>]
        ELSE [ok |-> TRUE, ctx |-> [ctx EXCEPT !.tmp = r.tmp], out |-> r.out, fed |-> buf,
              ops |-> <<Op("update", buf, r.out, FALSE), Op("sink", r.out, <<>>, FALSE)>>]

\* WriteFooter: LZ4F_compressEnd then m_sink.write of the result, or a throw
WriteFooter(ctx, e) ==
    IF e
    THEN [ok |-> FALSE, ctx |-> ctx, out |-> <<>>,
          ops |-> <<Op("end", <<>>, <<>>, TRUE)>>]
    ELSE [ok |-> TRUE, ctx |-> [ctx EXCEPT !.tmp = <<>>], out |-> LZ4F_compressEnd(ctx.tmp),
          ops |-> <<Op("end", <<>>, LZ4F_compressEnd(ctx.tmp), FALSE),
                    Op("sink", LZ4F_compressEnd(ctx.tmp), <<>>, FALSE)>>]

\* WriteHeader: LZ4F_compressBegin then m_sink.write of the result, or a throw
WriteHeaderNothing(ctx, e) ==
    [ok |-> ~e, ctx |-> ctx, out |-> <<>>, ops |-> <<Op("begin", <<>>, <<>>, e)>>]
WriteHeader(ctx, e) ==
    IF e
    THEN [ok |-> FALSE, ctx |-> ctx, out |-> <<>>,
          ops |-> <<Op("begin", <<>>, <<>>, TRUE)>>]
    ELSE [ok |-> TRUE, ctx |-> ctx, out |-> Header,
          ops |-> <<Op("begin", <<>>, Header, FALSE), Op("sink", Header, <<>>, FALSE)>>]

CallNames(ops) == [i \in 1..Len(SelectSeq(ops, LAMBDA x : x.op # "sink")) |->
                      SelectSeq(ops, LAMBDA x : x.op # "sink")[i].op]

\* output_buffer::output_buffer and the constructor of basic_ostream
\* (c: LZ4F_createCompressionContext fails, e: LZ4F_compressBegin fails)
Construct ==
    /\ olife = "none"
    /\ ilife = "none"
    /\ UNCHANGED ivars
    /\ \E c \in Errs, e \in Errs :
        IF c
        THEN /\ olife' = "ctor_failed"
             /\ ofailed' = ofailed + 1
             /\ calls' = calls \o <<"create">>
             /\ oev' = OTick("Construct", <<Op("create", <<>>, <<>>, TRUE)>>)
             /\ UNCHANGED <<m_context, sink>>
        ELSE LET h == WriteHeader([st |-> "live", tmp |-> <<>>], e)
             IN  /\ olife' = IF h.ok THEN "alive" ELSE "ctor_failed"
                 /\ ofailed' = ofailed + (IF h.ok THEN 0 ELSE 1)
                 /\ m_context' = h.ctx
                 /\ sink' = sink \o h.out
                 /\ calls' = calls \o <<"create">> \o CallNames(h.ops)
                 /\ oev' = OTick("Construct", <<Op("create", <<>>, <<>>, FALSE)>> \o h.ops)
    /\ UNCHANGED <<ndebug, m_closed, m_sourceBuffer, accepted, late, fed, ocnt>>

\* CompressAndWrite reached with m_closed set: assert(!m_closed) aborts a
\* checked build; an unchecked build calls LZ4F_compressUpdate on the freed
\* session, which is undefined: the process crashes, or the call reports an
\* error, or it acts on the stale session as if it were live
ClosedCompressAndWrite(a, buf) ==
    \E u \in {"assert", "crash", "error", "works"} :
        /\ u = "assert" => ndebug = "either"
        /\ IF u = "assert"
           THEN /\ olife' = "dead"
                /\ m_sourceBuffer' = buf
                /\ oev' = OTick(a, <<Op("assert", <<>>, <<>>, TRUE)>>)
                /\ UNCHANGED <<ndebug, m_context, sink, fed, calls, ofailed>>
           ELSE LET r == CompressAndWrite(buf, m_context, u = "error")
                IN  /\ ndebug' = "yes"
                    /\ m_sourceBuffer' = <<>>
                    /\ calls' = calls \o <<"update">>
                    /\ oev' = OTick(a, r.ops)
                    /\ olife' = IF u = "crash" THEN "dead" ELSE olife
                    /\ ofailed' = ofailed + (IF u = "error" THEN 1 ELSE 0)
                    /\ sink' = IF u = "works" THEN sink \o r.out ELSE sink
                    /\ m_context' = IF u = "works" THEN r.ctx ELSE m_context
                    /\ fed' = IF u = "works" THEN fed \o r.fed ELSE fed

\* CompressAndWrite as a step of its own (from overflow and from sync)
DoCompressAndWrite(a, buf) ==
    IF m_closed
    THEN ClosedCompressAndWrite(a, buf)
    ELSE \E e \in Errs :
         LET r == CompressAndWrite(buf, m_context, e)
         IN  /\ m_sourceBuffer' = <<>>
             /\ m_context' = r.ctx
             /\ sink' = sink \o r.out
             /\ fed' = fed \o r.fed
             /\ calls' = calls \o <<"update">>
             /\ ofailed' = ofailed + (IF r.ok THEN 0 ELSE 1)
             /\ oev' = OTick(a, r.ops)
             /\ UNCHANGED <<olife, ndebug>>

\* std::streambuf::sputc on the put area, and output_buffer::overflow when
\* pptr() = epptr(). The caller writes and flushes no more once an operation
\* has thrown (it may still close and destroy the adapter).
Write(b) ==
    /\ olife = "alive"
    /\ ilife = "none"
    /\ UNCHANGED ivars
    /\ ofailed = 0
    /\ ocnt.w < MaxWrites
    /\ ocnt' = [ocnt EXCEPT !.w = @ + 1]
    /\ accepted' = IF m_closed THEN accepted ELSE accepted \o <<b>>
    /\ late' = IF m_closed THEN late \o <<b>> ELSE late
    /\ IF Len(m_sourceBuffer) < PutArea
       THEN /\ m_sourceBuffer' = m_sourceBuffer \o <<b>>
            /\ oev' = OTick("Write", <<>>)
            /\ UNCHANGED <<ndebug, olife, m_context, sink, fed, calls, ofailed>>
       ELSE DoCompressAndWrite("Write", m_sourceBuffer \o <<b>>)
    /\ UNCHANGED m_closed

\* output_buffer::sync (std::ostream::flush)
Flush ==
    /\ olife = "alive"
    /\ ilife = "none"
    /\ UNCHANGED ivars
    /\ ofailed = 0
    /\ ocnt.f < MaxFlushes
    /\ ocnt' = [ocnt EXCEPT !.f = @ + 1]
    /\ DoCompressAndWrite("Flush", m_sourceBuffer)
    /\ UNCHANGED <<m_closed, accepted, late>>

\* Close without its sync(): the buffered bytes never reach the encoder
CloseNoSync(e1, e2) ==
    LET f == WriteFooter(m_context, e2)
    IN  IF ~f.ok
        THEN [ok |-> FALSE, closed |-> m_closed, ctx |-> m_context, buf |-> m_sourceBuffer,
              out |-> <<>>, fed |-> <<>>, ops |-> f.ops, calls |-> <<"end">>]
        ELSE [ok |-> TRUE, closed |-> TRUE, ctx |-> [st |-> "freed", tmp |-> <<>>],
              buf |-> m_sourceBuffer, out |-> f.out, fed |-> <<>>,
              ops |-> f.ops \o <<Op("free", <<>>, <<>>, FALSE)>>,
              calls |-> <<"end", "free">>]

\* Close with WriteFooter ahead of sync(): the buffered bytes follow the end mark
FirstCloseFooterFirst(e1, e2) ==
    LET f == WriteFooter(m_context, e2)
        s == CompressAndWrite(m_sourceBuffer, f.ctx, e1)
    IN  IF ~f.ok
        THEN [ok |-> FALSE, closed |-> m_closed, ctx |-> m_context, buf |-> m_sourceBuffer,
              out |-> <<>>, fed |-> <<>>, ops |-> f.ops, calls |-> <<"end">>]
        ELSE IF ~s.ok
        THEN [ok |-> FALSE, closed |-> m_closed, ctx |-> f.ctx, buf |-> <<>>,
              out |-> f.out, fed |-> <<>>, ops |-> f.ops \o s.ops,
              calls |-> <<"end", "update">>]
        ELSE [ok |-> TRUE, closed |-> TRUE, ctx |-> [st |-> "freed", tmp |-> <<>>],
              buf |-> <<>>, out |-> f.out \o s.out, fed |-> s.fed,
              ops |-> f.ops \o s.ops \o <<Op("free", <<>>, <<>>, FALSE)>>,
              calls |-> <<"end", "update", "free">>]

\* output_buffer::Close past its guard, as a function of the state: the state
\* it leaves and what it did (e1: the update of sync fails, e2:
\* LZ4F_compressEnd fails)
FirstClose(e1, e2) ==
    LET s == CompressAndWrite(m_sourceBuffer, m_context, e1)
        f == WriteFooter(s.ctx, e2)
    IN  IF ~s.ok
        THEN [ok |-> FALSE, closed |-> m_closed, ctx |-> m_context, buf |-> <<>>,
              out |-> <<>>, fed |-> <<>>, ops |-> s.ops, calls |-> <<"update">>]
        ELSE IF ~f.ok
        THEN [ok |-> FALSE, closed |-> m_closed, ctx |-> s.ctx, buf |-> <<>>,
              out |-> s.out, fed |-> s.fed, ops |-> s.ops \o f.ops,
              calls |-> <<"update", "end">>]
        ELSE [ok |-> TRUE, closed |-> TRUE, ctx |-> [st |-> "freed", tmp |-> <<>>],
              buf |-> <<>>, out |-> s.out \o f.out, fed |-> s.fed,
              ops |-> s.ops \o f.ops \o <<Op("free", <<>>, <<>>, FALSE)>>,
              calls |-> <<"update", "end", "free">>]

\* output_buffer::Close: if (m_closed) return; then the close proper
CloseUnguarded(e1, e2) == FirstClose(e1, e2)
CloseResult(e1, e2) ==
    IF m_closed
    THEN [ok |-> TRUE, closed |-> TRUE, ctx |-> m_context, buf |-> m_sourceBuffer,
          out |-> <<>>, fed |-> <<>>, ops |-> <<>>, calls |-> <<>>]
    ELSE FirstClose(e1, e2)

\* basic_ostream::Close
Close ==
    /\ olife = "alive"
    /\ ilife = "none"
    /\ UNCHANGED ivars
    /\ ocnt.c < MaxCloses
    /\ ocnt' = [ocnt EXCEPT !.c = @ + 1]
    /\ \E e1 \in Errs, e2 \in Errs :
        LET r == CloseResult(e1, e2)
        IN  /\ m_closed' = r.closed
            /\ m_context' = r.ctx
            /\ m_sourceBuffer' = r.buf
            /\ sink' = sink \o r.out
            /\ fed' = fed \o r.fed
            /\ calls' = calls \o r.calls
            /\ ofailed' = ofailed + (IF r.ok THEN 0 ELSE 1)
            /\ oev' = OTick("Close", r.ops)
    /\ UNCHANGED <<ndebug, olife, accepted, late>>

\* the call this->Close() of basic_ostream::~basic_ostream
DtorCloseSkipped(e1, e2) ==
    [ok |-> TRUE, closed |-> m_closed, ctx |-> m_context, buf |-> m_sourceBuffer,
     out |-> <<>>, fed |-> <<>>, ops |-> <<>>, calls |-> <<>>]
DtorClose(e1, e2) == CloseResult(e1, e2)

\* basic_ostream::~basic_ostream: this->Close(), then delete[] m_buffer.
\* An exception leaving Close ends the process (the destructor is noexcept).
\* delete[] of an object allocated with new is undefined: the destructor of
\* the buffer runs (and its Close returns at once, m_closed being set), or the
\* allocator aborts the process.
Destroy ==
    /\ olife = "alive"
    /\ ilife = "none"
    /\ UNCHANGED ivars
    /\ \E e1 \in Errs, e2 \in Errs, u \in {"dtor", "abort"} :
        LET r == DtorClose(e1, e2)
        IN  /\ m_closed' = r.closed
            /\ m_context' = r.ctx
            /\ m_sourceBuffer' = r.buf
            /\ sink' = sink \o r.out
            /\ fed' = fed \o r.fed
            /\ calls' = calls \o r.calls
            /\ ofailed' = ofailed + (IF r.ok THEN 0 ELSE 1)
            /\ oev' = OTick("Destroy", r.ops)
            /\ olife' = IF r.ok /\ u = "dtor" THEN "destroyed" ELSE "dead"
    /\ UNCHANGED <<ndebug, accepted, late, ocnt>>

\* --------------------------------------------------------------- the decoder
Min(a, b) == IF a < b THEN a ELSE b

NoDContext == [st |-> "null", stage |-> "magic", rem |-> 0]

\* the decoder session consuming one byte x of the frame: the stage it moves
\* to, the byte it decodes (if any), or an error
DecByte(d, x) ==
    CASE d.stage = "magic" ->
           [d |-> [d EXCEPT !.stage = "flg"], out |-> <<>>, err |-> x # Magic]
      [] d.stage = "flg" ->
           [d |-> [d EXCEPT !.stage = "size"], out |-> <<>>, err |-> x # Flg]
      [] d.stage = "size" ->
           IF x = EndMark
           THEN [d |-> [d EXCEPT !.stage = "magic"], out |-> <<>>, err |-> FALSE]
           ELSE [d |-> [d EXCEPT !.stage = "data", !.rem = x], out |-> <<>>,
                 err |-> ~(x \in 1..BlockSize)]
      [] OTHER ->
           [d |-> IF d.rem = 1 THEN [d EXCEPT !.stage = "size", !.rem = 0]
                  ELSE [d EXCEPT !.rem = @ - 1],
            out |-> <<x>>, err |-> FALSE]

RECURSIVE DecRun(_, _)
DecRun(d, bytes) ==
    IF bytes = <<>> THEN [d |-> d, out |-> <<>>, err |-> FALSE]
    ELSE LET s == DecByte(d, Head(bytes))
         IN  IF s.err THEN [d |-> d, out |-> <<>>, err |-> TRUE]
             ELSE LET r == DecRun(s.d, Tail(bytes))
                  IN  [d |-> r.d, out |-> s.out \o r.out, err |-> r.err]

\* LZ4F_decompress(ctx, dst, &dstSize, src, &srcSize): the counts of source
\* bytes one call may report as consumed: at least one, no more than offered,
\* no more than what fills the destination, and none past a byte in error
Consumable(d, span, cap) ==
    {c \in 1..Len(span) :
        LET before == DecRun(d, SubSeq(span, 1, c - 1))
            upto == DecRun(d, SubSeq(span, 1, c))
        IN  /\ ~before.err
            /\ Len(before.out) <= cap
            /\ upto.err \/ Len(upto.out) <= cap}

\* one call that consumes c bytes of the span; e: the call reports an error
\* of its own (an allocation failure, a checksum)
LZ4F_decompress(d, span, c, e) ==
    IF e THEN [d |-> d, out |-> <<>>, err |-> TRUE] ELSE DecRun(d, SubSeq(span, 1, c))

\* -------------------------------------------------- the decompressing source
ITick(a, ops) == [tick |-> 1 - iev.tick, act |-> a, ops |-> ops]

DOp(o, a, r, e, n) == [op |-> o, arg |-> a, ret |-> r, err |-> e, n |-> n]

\* input_buffer::input_buffer over the bytes that a sink adapter used without
\* fault has written so far (a whole frame once it is closed, a truncated one
\* before), possibly with LZ4F_createDecompressionContext failing (c)
OpenSource ==
    /\ ilife = "none"
    /\ olife # "none"
    /\ ofailed = 0 /\ late = <<>>
    /\ \E c \in BOOLEAN :
        /\ m_source' = [data |-> sink, fail |-> FALSE]
        /\ ihist' = [complete |-> m_closed,
                     short |-> FALSE, eofs |-> 0, errs |-> IF c THEN 1 ELSE 0]
        /\ ilife' = IF c THEN "ctor_failed" ELSE "alive"
        /\ m_dcontext' = IF c THEN m_dcontext ELSE [m_dcontext EXCEPT !.st = "live"]
        /\ iev' = ITick("OpenSource", <<DOp("create", <<>>, <<>>, c, 0)>>)
    /\ UNCHANGED <<sourceBuffer, m_offset, m_sourceBufferSize, gview, rpc, ires, decoded, dfed>>
    /\ UNCHANGED ovars

\* m_source.read(sourceBuffer.data(), sourceBuffer.size()) and gcount(): the
\* counts the stream may deliver. A stream whose failbit is set delivers
\* nothing; a stream buffer may hand over fewer bytes than it holds.
Deliverable ==
    IF m_source.fail \/ m_source.data = <<>> THEN {0}
    ELSE 1..Min(ISrcBufSize, Len(m_source.data))

\* std::istream::read sets eofbit and failbit when it extracts fewer
\* characters than requested
AfterRead(k) ==
    [data |-> SubSeq(m_source.data, k + 1, Len(m_source.data)),
     fail |-> m_source.fail \/ k < ISrcBufSize]

\* the condition of underflow's refill: m_offset == m_sourceBufferSize
NeedsReadAlways == TRUE
NeedsRead == m_offset = m_sourceBufferSize

\* sourceBuffer after a read of the bytes chunk: the array keeps what the
\* read did not overwrite
Refill(chunk) == chunk \o SubSeq(sourceBuffer, Len(chunk) + 1, Len(sourceBuffer))

\* m_offset = 0 after a read
OffsetAfterReadKept == m_offset
OffsetAfterRead == 0

\* m_offset += src_size after a decoder call that consumed c bytes
AdvanceTo(off, c) == c
Advance(off, c) == off + c

\* LZ4F_isError(result) != 0 on the result of LZ4F_decompress
IsErrorNever(r) == FALSE
IsError(r) == r.err

\* the end-of-stream test of underflow: m_sourceBufferSize == 0
EndOfSourceOnShort(size) == size < ISrcBufSize
EndOfSourceNever(size) == FALSE
EndOfSource(size) == size = 0

\* one iteration of the loop of input_buffer::underflow (the first one starts
\* the call, with writtenSize = 0), called by sbumpc when the get area is empty
Underflow ==
    /\ ilife = "alive"
    /\ ires # "error"
    /\ rpc = "pull" \/ gview = <<>>
    /\ \E k \in (IF NeedsRead THEN Deliverable ELSE {0}) :
        LET buf == IF NeedsRead THEN Refill(SubSeq(m_source.data, 1, k)) ELSE sourceBuffer
            size == IF NeedsRead THEN k ELSE m_sourceBufferSize
            off == IF NeedsRead THEN OffsetAfterRead ELSE m_offset
            rops == IF NeedsRead
                    THEN <<DOp("read", <<>>, SubSeq(m_source.data, 1, k), FALSE, k)>>
                    ELSE <<>>
            short == NeedsRead /\ k < Min(ISrcBufSize, Len(m_source.data))
            span == SubSeq(buf, off + 1, size)
        IN  /\ m_source' = IF NeedsRead THEN AfterRead(k) ELSE m_source
            /\ sourceBuffer' = buf
            /\ m_sourceBufferSize' = size
            /\ IF EndOfSource(size)
               THEN /\ m_offset' = off
                    /\ rpc' = "idle"
                    /\ ires' = "eof"
                    /\ ihist' = [ihist EXCEPT !.eofs = Min(@ + 1, 2), !.short = @ \/ short]
                    /\ iev' = ITick("Underflow", rops)
                    /\ UNCHANGED <<m_dcontext, gview, decoded, dfed>>
               ELSE \E c \in Consumable(m_dcontext, span, IDestBufSize), e \in Errs :
                    LET r == LZ4F_decompress(m_dcontext, span, c, e)
                    IN  /\ ihist' = [ihist EXCEPT !.short = @ \/ short,
                                                  !.errs = @ + (IF r.err THEN 1 ELSE 0)]
                        /\ iev' = ITick("Underflow",
                                        rops \o <<DOp("decompress", span, r.out, r.err, c)>>)
                        /\ IF IsError(r)
                           THEN /\ m_offset' = off
                                /\ rpc' = "idle"
                                /\ ires' = "error"
                                /\ UNCHANGED <<m_dcontext, gview, decoded, dfed>>
                           ELSE /\ m_offset' = Advance(off, c)
                                /\ m_dcontext' = r.d
                                /\ dfed' = dfed \o SubSeq(span, 1, c)
                                /\ IF r.out = <<>>
                                   THEN /\ rpc' = "pull"
                                        /\ UNCHANGED <<gview, decoded, ires>>
                                   ELSE /\ rpc' = "idle"
                                        /\ ires' = "byte"
                                        /\ decoded' = decoded \o <<Head(r.out)>>
                                        /\ gview' = Tail(r.out)
    /\ UNCHANGED ilife
    /\ UNCHANGED ovars

\* std::streambuf::sbumpc with a character left in the get area
Read ==
    /\ ilife = "alive"
    /\ rpc = "idle"
    /\ gview # <<>>
    /\ decoded' = decoded \o <<Head(gview)>>
    /\ gview' = Tail(gview)
    /\ ires' = "byte"
    /\ iev' = ITick("Read", <<>>)
    /\ UNCHANGED <<ilife, m_source, sourceBuffer, m_offset, m_sourceBufferSize,
                   m_dcontext, rpc, ihist, dfed>>
    /\ UNCHANGED ovars

\* input_buffer::~input_buffer
DestroySource ==
    /\ ilife = "alive"
    /\ rpc = "idle"
    /\ ilife' = "destroyed"
    /\ m_dcontext' = [m_dcontext EXCEPT !.st = "freed"]
    /\ iev' = ITick("DestroySource", <<DOp("free", <<>>, <<>>, FALSE, 0)>>)
    /\ UNCHANGED <<m_source, sourceBuffer, m_offset, m_sourceBufferSize, gview, rpc,
                   ires, decoded, dfed, ihist>>
    /\ UNCHANGED ovars

IInit ==
    /\ ilife = "none"
    /\ m_source = [data |-> <<>>, fail |-> FALSE]
    /\ sourceBuffer = <<>>
    /\ m_offset = 0
    /\ m_sourceBufferSize = 0
    /\ m_dcontext = NoDContext
    /\ gview = <<>>
    /\ rpc = "idle"
    /\ ires = "none"
    /\ decoded = <<>>
    /\ dfed = <<>>
    /\ ihist = [complete |-> FALSE, short |-> FALSE, eofs |-> 0, errs |-> 0]
    /\ iev = [tick |-> 0, act |-> "none", ops |-> <<>>]

OInit ==
    /\ ndebug = "either"
    /\ olife = "none"
    /\ m_closed = FALSE
    /\ m_context = NoContext
    /\ m_sourceBuffer = <<>>
    /\ sink = <<>>
    /\ accepted = <<>>
    /\ late = <<>>
    /\ fed = <<>>
    /\ calls = <<>>
    /\ ofailed = 0
    /\ ocnt = [w |-> 0, f |-> 0, c |-> 0]
    /\ oev = [tick |-> 0, act |-> "none", ops |-> <<>>]

Init == OInit /\ IInit

Next ==
    \/ Construct
    \/ \E b \in Byte : Write(b)
    \/ Flush
    \/ Close
    \/ Destroy
    \/ OpenSource
    \/ Underflow
    \/ Read
    \/ DestroySource

Spec == Init /\ [][Next]_vars

\* ------------------------------------------- the source adapter on its own
\* the byte sequences of at most n bytes
SeqsUpTo(n) == UNION {[1..k -> Byte] : k \in 0..n}

\* the frame of the bytes s, and the finite streams an upstream source may
\* hold: a frame, whole or cut short
Frame(s) == Header \o LZ4F_compressUpdate(<<>>, s).out
                   \o LZ4F_compressEnd(LZ4F_compressUpdate(<<>>, s).tmp)

Streams == UNION {{SubSeq(Frame(s), 1, n) : n \in 0..Len(Frame(s))} : s \in SeqsUpTo(MaxWrites)}

\* a source adapter constructed over a finite upstream stream
LiveInit ==
    /\ OInit
    /\ ilife = "alive"
    /\ \E d \in Streams :
          /\ m_source = [data |-> d, fail |-> FALSE]
          /\ ihist = [complete |-> d \in {Frame(s) : s \in SeqsUpTo(MaxWrites)},
                       short |-> FALSE, eofs |-> 0, errs |-> 0]
    /\ sourceBuffer = <<>>
    /\ m_offset = 0
    /\ m_sourceBufferSize = 0
    /\ m_dcontext = [NoDContext EXCEPT !.st = "live"]
    /\ gview = <<>>
    /\ rpc = "idle"
    /\ ires = "none"
    /\ decoded = <<>>
    /\ dfed = <<>>
    /\ iev = [tick |-> 0, act |-> "OpenSource", ops |-> <<DOp("create", <<>>, <<>>, FALSE, 0)>>]

LiveNext ==
    \/ Underflow
    \/ Read
    \/ DestroySource

\* an iteration of the loop of underflow after the first: the loop is
\* synchronous code on the caller's thread, so once entered it keeps running
PullOn == rpc = "pull" /\ Underflow

LiveSpec == LiveInit /\ [][LiveNext]_vars /\ WF_vars(PullOn)

\* ---------------------------------------------------------------- properties
\* a step of the sink adapter / of the source adapter that performs a
OStep(a) == oev'.tick # oev.tick /\ oev'.act = a
IStep(a) == iev'.tick # iev.tick /\ iev'.act = a

Last(s) == s[Len(s)]

\* C1 Round trip: when the source adapter reads, with full-size upstream
\* reads, the bytes of a sink adapter that was written and closed without
\* fault, then at end-of-stream the bytes it has returned are exactly the
\* bytes that were written, in order.
C1_RoundTrip ==
    (ihist.complete /\ ~ihist.short /\ ires = "eof") => decoded = accepted

C1_Witness ==
    /\ ihist.complete /\ ~ihist.short /\ ires = "eof"
    /\ Len(accepted) = MaxWrites
    /\ decoded = accepted
    /\ ocnt.f = 1

\* C2 Idempotent close: a close() of an adapter that is already closed changes
\* nothing, calls no codec operation, writes nothing and raises nothing; after
\* any number of closes without a codec error the encoder's end operation was
\* called once and the sink holds one end mark.
C2_IdempotentClose ==
    /\ [][(OStep("Close") /\ m_closed) =>
            /\ oev'.ops = <<>>
            /\ UNCHANGED <<sink, calls, m_context, m_closed, ofailed, olife, fed>>]_vars
    /\ [](ocnt.c >= 1 /\ ofailed = 0 =>
            /\ m_closed
            /\ Count(calls, "end") = 1
            /\ Count(sink, EndMark) = 1)

C2_Witness ==
    /\ ocnt.c = 2 /\ ofailed = 0 /\ olife = "alive"
    /\ oev.act = "Close" /\ oev.ops = <<>>
    /\ Count(sink, EndMark) = 1

\* C3 Header first: once the sink adapter is constructed, the session was
\* created and begun exactly once before any other codec call, and the frame
\* header is the first thing in the sink, whether or not a byte is ever
\* written; before that nothing is accepted and nothing is written.
C3_HeaderFirst ==
    /\ olife \in {"alive", "destroyed", "dead"} =>
          /\ IsPrefix(Header, sink)
          /\ IsPrefix(<<"create", "begin">>, calls)
          /\ Count(calls, "begin") = 1
    /\ olife \in {"none", "ctor_failed"} =>
          /\ sink = <<>> /\ accepted = <<>> /\ late = <<>>
          /\ Count(calls, "update") = 0 /\ Count(calls, "end") = 0

C3_Witness ==
    /\ olife = "destroyed"
    /\ ocnt.w = 0
    /\ sink = Header \o <<EndMark>>

\* C4 Short-read tolerance: whatever sizes the upstream reads come in, at
\* end-of-stream the source adapter has returned exactly the written bytes.
C4_ShortReadTolerance ==
    (ihist.complete /\ ires = "eof") => decoded = accepted

\* the decoder calls, the upstream reads of the last step of the source adapter
DecCalls(ev) == SelectSeq(ev.ops, LAMBDA x : x.op = "decompress")
SrcReads(ev) == SelectSeq(ev.ops, LAMBDA x : x.op = "read")

\* the bytes in sourceBuffer that the decoder has not consumed
Unconsumed == SubSeq(sourceBuffer, m_offset + 1, m_sourceBufferSize)

\* C5 Partial consumption: an iteration of the pull loop reads from upstream
\* exactly when read_offset = read_limit; otherwise it leaves the buffer as it
\* is and calls the decoder on exactly the unconsumed span; so the bytes the
\* decoder has consumed, the unconsumed span and what upstream still holds
\* always make up the stream, nothing skipped and nothing overwritten.
C5_PartialConsumption ==
    /\ [][IStep("Underflow") =>
            /\ (SrcReads(iev') # <<>>) <=> (m_offset = m_sourceBufferSize)
            /\ m_offset < m_sourceBufferSize =>
                  /\ sourceBuffer' = sourceBuffer
                  /\ Len(DecCalls(iev')) = 1
                  /\ DecCalls(iev')[1].arg = Unconsumed]_vars
    /\ [](ilife = "alive" /\ ires # "error" =>
            /\ dfed \o Unconsumed \o m_source.data = sink
            /\ (rpc = "pull" /\ m_offset < m_sourceBufferSize) => ENABLED Underflow)

\* a decoder call on a span left over by an earlier call that consumed less
\* than it was offered and produced nothing
C5_Witness ==
    /\ iev.act = "Underflow"
    /\ SrcReads(iev) = <<>>
    /\ Len(DecCalls(iev)) = 1
    /\ Len(DecCalls(iev)[1].arg) < m_sourceBufferSize
    /\ DecCalls(iev)[1].ret = <<>>
    /\ decoded = <<>>
    /\ m_offset < m_sourceBufferSize

\* C6 Buffer-full boundary: a write into a put area holding fewer than N-1
\* bytes stores the byte and calls no codec operation; the write that finds
\* N-1 bytes buffered makes exactly one update call over all N bytes in write
\* order, the new byte last, and leaves the buffer empty.
C6_BufferFullBoundary ==
    /\ [][(OStep("Write") /\ ~m_closed) =>
            IF Len(m_sourceBuffer) < OSrcBufSize - 1
            THEN /\ oev'.ops = <<>>
                 /\ m_sourceBuffer' = m_sourceBuffer \o <<Last(accepted')>>
                 /\ calls' = calls
            ELSE /\ Len(OpsOf(oev'.ops, "update")) = 1
                 /\ OpsOf(oev'.ops, "update")[1].arg = m_sourceBuffer \o <<Last(accepted')>>
                 /\ Len(OpsOf(oev'.ops, "update")[1].arg) = OSrcBufSize
                 /\ calls' = calls \o <<"update">>
                 /\ m_sourceBuffer' = <<>>]_vars
    /\ [](olife = "alive" /\ ~m_closed => Len(m_sourceBuffer) <= OSrcBufSize - 1)

C6_Witness ==
    /\ oev.act = "Write" /\ ~m_closed
    /\ Len(OpsOf(oev.ops, "update")) = 1
    /\ Len(OpsOf(oev.ops, "update")[1].arg) = OSrcBufSize
    /\ Count(calls, "update") = 1
    /\ Len(accepted) = OSrcBufSize
    /\ m_sourceBuffer = <<>>

\* C7 Decoder error propagation: an iteration of the pull loop whose decoder
\* call reports an error ends the read with an error: no byte is returned, no
\* end-of-stream, the loop does not go on.
C7_DecoderErrorPropagates ==
    [][(IStep("Underflow") /\ \E i \in 1..Len(iev'.ops) : iev'.ops[i].err) =>
          /\ ires' = "error"
          /\ rpc' = "idle"
          /\ decoded' = decoded
          /\ gview' = gview
          /\ ihist'.eofs = ihist.eofs]_vars

\* an error on a call that is not the first of the stream
C7_Witness ==
    /\ ires = "error"
    /\ dfed # <<>>
    /\ decoded # <<>>

\* C8 Write after close is rejected: a write on a closed adapter fails
\* fatally; the byte is not stored in the put area, no codec operation is
\* called and nothing is written to the sink.
C8_WriteAfterCloseRejected ==
    [][(OStep("Write") /\ m_closed) =>
          /\ ofailed' > ofailed \/ olife' = "dead"
          /\ m_sourceBuffer' = m_sourceBuffer
          /\ late' = late
          /\ calls' = calls
          /\ sink' = sink]_vars

\* C9 (as claimed) End-of-stream is permanent: after a read has returned
\* end-of-stream, every read returns end-of-stream without any call to the
\* upstream source or to the decoder.
C9_EofNoUpstreamCall ==
    [][(ihist.eofs > 0 /\ IStep("Underflow")) =>
          /\ ires' = "eof"
          /\ iev'.ops = <<>>]_vars

\* C9 (amended) After a read has returned end-of-stream, every read returns
\* end-of-stream and calls no decoder operation; it asks the upstream source
\* once more, and gets zero bytes.
C9_EofPermanent ==
    [][(ihist.eofs > 0 /\ IStep("Underflow")) =>
          /\ ires' = "eof"
          /\ rpc' = "idle"
          /\ decoded' = decoded
          /\ DecCalls(iev') = <<>>
          /\ Len(SrcReads(iev')) = 1
          /\ SrcReads(iev')[1].n = 0
          /\ UNCHANGED <<m_source, m_dcontext, m_offset, m_sourceBufferSize>>]_vars

\* a second end-of-stream, after all the written bytes were returned
C9_Witness ==
    /\ ihist.eofs = 2 /\ ires = "eof" /\ iev.act = "Underflow"
    /\ Len(SrcReads(iev)) = 1
    /\ SrcReads(iev)[1].n = 0
    /\ ihist.complete /\ decoded # <<>>

\* C10 Destruction closes: the destructor of an adapter that is not closed
\* does, when the codec reports no error, the whole close: one update over the
\* buffered bytes, the end call, their output to the sink, the release of the
\* session; the destructor of a closed adapter calls no codec operation and
\* writes nothing.
C10_DestructionCloses ==
    [][OStep("Destroy") =>
          IF m_closed
          THEN /\ oev'.ops = <<>>
               /\ UNCHANGED <<sink, calls, m_context, fed>>
          ELSE (\A i \in 1..Len(oev'.ops) : ~oev'.ops[i].err) =>
               /\ calls' = calls \o <<"update", "end", "free">>
               /\ OpsOf(oev'.ops, "update")[1].arg = m_sourceBuffer
               /\ fed' = fed \o m_sourceBuffer
               /\ sink' = sink \o LZ4F_compressUpdate(m_context.tmp, m_sourceBuffer).out
                               \o LZ4F_compressEnd(LZ4F_compressUpdate(m_context.tmp,
                                                                        m_sourceBuffer).tmp)
               /\ Count(sink', EndMark) = 1
               /\ m_context'.st = "freed"
               /\ m_closed'
               /\ m_sourceBuffer' = <<>>]_vars

C10_Witness ==
    /\ olife = "destroyed" /\ oev.act = "Destroy"
    /\ ocnt.c = 0 /\ ofailed = 0
    /\ Len(OpsOf(oev.ops, "update")) = 1
    /\ OpsOf(oev.ops, "update")[1].arg # <<>>
    /\ Len(OpsOf(oev.ops, "end")) = 1
    /\ m_closed /\ m_context.st = "freed"
    /\ Last(sink) = EndMark

\* C11 Session release exactly once: a session that was created is destroyed
\* once on every path on which the adapter goes away (construction aborted,
\* close, destruction), never twice, and no codec operation is called on a
\* session after it was destroyed.
C11_SessionReleasedOnce ==
    /\ Count(calls, "free") <= 1
    /\ \A i \in 1..Len(calls) : calls[i] = "free" => i = Len(calls)
    /\ (olife \in {"ctor_failed", "destroyed"} /\ m_context.st # "null") =>
          /\ m_context.st = "freed"
          /\ Count(calls, "free") = 1
    /\ ilife = "destroyed" => m_dcontext.st = "freed"

\* C12 Flush contract: a flush of an open adapter with k > 0 buffered bytes
\* makes exactly one update call, over the k buffered bytes in write order;
\* when the encoder reports no error, the bytes it produced, and nothing
\* else, are written to the sink and the buffer is empty afterwards; when
\* it reports an error the flush raises and the sink is left as it was.
C12_FlushContract ==
    [][(OStep("Flush") /\ ~m_closed /\ m_sourceBuffer # <<>>) =>
          /\ Len(OpsOf(oev'.ops, "update")) = 1
          /\ OpsOf(oev'.ops, "update")[1].arg = m_sourceBuffer
          /\ calls' = calls \o <<"update">>
          /\ IF OpsOf(oev'.ops, "update")[1].err
             THEN /\ ofailed' = ofailed + 1
                  /\ sink' = sink
                  /\ OpsOf(oev'.ops, "sink") = <<>>
             ELSE /\ ofailed' = ofailed
                  /\ OpsOf(oev'.ops, "update")[1].ret =
                         LZ4F_compressUpdate(m_context.tmp, m_sourceBuffer).out
                  /\ sink' = sink \o OpsOf(oev'.ops, "update")[1].ret
                  /\ Len(OpsOf(oev'.ops, "sink")) = 1
                  /\ OpsOf(oev'.ops, "sink")[1].arg = OpsOf(oev'.ops, "update")[1].ret
                  /\ m_sourceBuffer' = <<>>]_vars

\* a flush of two buffered bytes for which the encoder produced a block
C12_Witness ==
    /\ oev.act = "Flush" /\ ~m_closed /\ ofailed = 0
    /\ Len(OpsOf(oev.ops, "update")) = 1
    /\ Len(OpsOf(oev.ops, "update")[1].arg) = 2
    /\ OpsOf(oev.ops, "update")[1].arg[1] # OpsOf(oev.ops, "update")[1].arg[2]
    /\ OpsOf(oev.ops, "update")[1].ret # <<>>
    /\ sink = Header \o OpsOf(oev.ops, "update")[1].ret
    /\ m_sourceBuffer = <<>>

\* the operations of a step, by name and in order
OpNames(ops) == [i \in 1..Len(ops) |-> ops[i].op]

\* the order of a close that runs to its end
CloseOrder == <<"update", "sink", "end", "sink", "free">>

\* C13 Close ordering and no data loss: the first close (by Close() or by the
\* destructor) does, in this order, the update of the final flush over the
\* buffered bytes, the write of its output, the end call, the write of the
\* footer, the release of the session, and sets closed only when all of them
\* were done (an error stops it where it is, and the adapter stays open); so
\* when the footer is emitted after a use without codec error, the bytes the
\* update calls were given are exactly the bytes accepted, in write order.
C13_CloseOrdering ==
    [][((OStep("Close") \/ OStep("Destroy")) /\ ~m_closed) =>
          /\ IsPrefix(OpNames(oev'.ops), CloseOrder)
          /\ oev'.ops # <<>>
          /\ oev'.ops[1].arg = m_sourceBuffer
          /\ m_closed' <=> OpNames(oev'.ops) = CloseOrder
          /\ m_closed' <=> m_context'.st = "freed"
          /\ m_closed' <=> ~Last(oev'.ops).err
          /\ Len(oev'.ops) >= 4 =>
                /\ sink' = sink \o oev'.ops[1].ret \o oev'.ops[3].ret
                /\ oev'.ops[2].arg = oev'.ops[1].ret
                /\ oev'.ops[4].arg = oev'.ops[3].ret
                /\ Last(oev'.ops[3].ret) = EndMark
                /\ ofailed = 0 => fed' = accepted /\ accepted' = accepted
          /\ ofailed = 0 => fed \o m_sourceBuffer = accepted]_vars

\* a first close with bytes still buffered and bytes already fed
C13_Witness ==
    /\ oev.act = "Close" /\ ocnt.c = 1 /\ m_closed /\ ofailed = 0
    /\ OpNames(oev.ops) = CloseOrder
    /\ oev.ops[1].arg # <<>>
    /\ Len(oev.ops[1].arg) < Len(accepted)
    /\ fed = accepted
    /\ Last(sink) = EndMark

\* a flush, explicit or the final one of a first close, of an open adapter
\* whose put area is empty
EmptyFlushStep ==
    /\ OStep("Flush") \/ OStep("Close") \/ OStep("Destroy")
    /\ ~m_closed
    /\ m_sourceBuffer = <<>>

\* C14 (as claimed) Empty flush is a no-op: a flush with zero buffered bytes
\* makes no encoder update call; an explicit one leaves the adapter as it was.
C14_EmptyFlushNoCall ==
    [][EmptyFlushStep =>
          /\ OpsOf(oev'.ops, "update") = <<>>
          /\ OStep("Flush") =>
                /\ oev'.ops = <<>>
                /\ UNCHANGED <<sink, calls, m_context, m_sourceBuffer, ofailed, fed>>]_vars

\* C14 (amended) A flush with zero buffered bytes makes one encoder update
\* call, over an empty span. When the encoder reports no error the call
\* produces nothing: zero bytes are written to the sink, and the session, the
\* buffer and the sink are as they were. When it reports an error the flush
\* raises.
C14_EmptyFlushOneCall ==
    [][EmptyFlushStep =>
          /\ Len(OpsOf(oev'.ops, "update")) = 1
          /\ oev'.ops[1].op = "update"
          /\ oev'.ops[1].arg = <<>>
          /\ oev'.ops[1].ret = <<>>
          /\ IsPrefix(calls \o <<"update">>, calls')
          /\ OStep("Flush") =>
                /\ calls' = calls \o <<"update">>
                /\ UNCHANGED <<sink, m_context, m_sourceBuffer, fed, m_closed, olife>>
                /\ IF oev'.ops[1].err
                   THEN ofailed' = ofailed + 1 /\ Len(oev'.ops) = 1
                   ELSE /\ ofailed' = ofailed
                        /\ oev'.ops = <<Op("update", <<>>, <<>>, FALSE),
                                        Op("sink", <<>>, <<>>, FALSE)>>]_vars

\* an empty flush while the encoder session holds a byte it has not emitted
C14_Witness ==
    /\ oev.act = "Flush" /\ ~m_closed /\ ofailed = 0
    /\ oev.ops = <<Op("update", <<>>, <<>>, FALSE), Op("sink", <<>>, <<>>, FALSE)>>
    /\ m_context.tmp # <<>>
    /\ m_sourceBuffer = <<>>
    /\ Len(sink) > Len(Header)

\* the encoder calls of the last operation of the sink adapter
EncoderCalls(ev) == SelectSeq(ev.ops, LAMBDA x : x.op \in {"begin", "update", "end"})

C16_ReadCursor ==
    /\ [](/\ 0 <= m_offset
           /\ m_offset <= m_sourceBufferSize
           /\ m_sourceBufferSize <= ISrcBufSize
           /\ Len(sourceBuffer) <= ISrcBufSize)
    /\ [][(IStep("Underflow") /\ DecCalls(iev') # <<>>) =>
            LET from == IF SrcReads(iev') # <<>> THEN 0 ELSE m_offset
                call == DecCalls(iev')[1]
            IN  /\ Len(DecCalls(iev')) = 1
                /\ Len(call.arg) = m_sourceBufferSize' - from
                /\ call.arg = SubSeq(sourceBuffer', from + 1, m_sourceBufferSize')
                /\ call.n >= 1 /\ call.n <= Len(call.arg)
                /\ m_offset' = IF call.err THEN from ELSE from + call.n]_vars

\* a decoder call on the rest of the buffer, after a call that consumed part
\* of it, that itself consumes less than it is offered
C16_Witness ==
    /\ iev.act = "Underflow" /\ ires # "error"
    /\ SrcReads(iev) = <<>>
    /\ Len(DecCalls(iev)) = 1
    /\ DecCalls(iev)[1].n < Len(DecCalls(iev)[1].arg)
    /\ 0 < m_offset /\ m_offset < m_sourceBufferSize

\* an iteration of the pull loop that returns end-of-stream
EofStep == IStep("Underflow") /\ rpc' = "idle" /\ ires' = "eof"

\* C17 End-of-stream only on a zero-byte upstream read: a read returns
\* end-of-stream only when the decoded view is exhausted, read_offset =
\* read_limit, and the upstream read of that iteration returned zero bytes;
\* an iteration that has unconsumed bytes buffered, or whose upstream read
\* returned one byte or more, calls the decoder and does not return
\* end-of-stream.
C17_EofOnlyOnZeroRead ==
    /\ [][EofStep =>
            /\ gview = <<>>
            /\ m_offset = m_sourceBufferSize
            /\ Len(SrcReads(iev')) = 1
            /\ SrcReads(iev')[1].n = 0
            /\ DecCalls(iev') = <<>>
            /\ m_sourceBufferSize' = 0 /\ m_offset' = 0]_vars
    /\ [][(IStep("Underflow") /\
            (m_offset < m_sourceBufferSize \/
             \E i \in 1..Len(SrcReads(iev')) : SrcReads(iev')[i].n > 0)) =>
            /\ ~EofStep
            /\ Len(DecCalls(iev')) = 1
            /\ ihist'.eofs = ihist.eofs]_vars

\* end-of-stream after the whole frame was read, the last buffer of it not
\* a full one
C17_Witness ==
    /\ iev.act = "Underflow" /\ rpc = "idle" /\ ires = "eof"
    /\ ihist.eofs = 1 /\ ihist.complete /\ ~ihist.short
    /\ Len(SrcReads(iev)) = 1 /\ SrcReads(iev)[1].n = 0
    /\ Len(sink) % ISrcBufSize # 0
    /\ dfed = sink
    /\ decoded # <<>>

\* the frame that the successful update calls so far have produced
Body == LZ4F_compressUpdate(<<>>, fed)

\* C18 Sink output order and terminal closed state: the sink holds the begin
\* output, then the outputs of the update calls in call order, then, once
\* closed, the end output; closed never goes back to false; once the footer
\* is written no operation writes to the sink.
C18_SinkOrderTerminal ==
    /\ [](olife \in {"alive", "destroyed", "dead"} /\ late = <<>> =>
            sink = IF Count(sink, EndMark) > 0
                   THEN Header \o Body.out \o LZ4F_compressEnd(Body.tmp)
                   ELSE Header \o Body.out)
    /\ [](m_closed => Count(sink, EndMark) = 1)
    /\ [][m_closed => m_closed']_vars
    /\ [][Count(sink, EndMark) > 0 => sink' = sink]_vars

\* C19 No retry after an encoder error: once an update or end call has
\* reported an error, no operation of the adapter, the close of the
\* destructor included, calls the encoder again or writes to the sink.
C19_NoRetryAfterError ==
    [][(ofailed > 0 /\ olife = "alive" /\ oev'.tick # oev.tick) =>
          /\ EncoderCalls(oev') = <<>>
          /\ sink' = sink]_vars

\* C20 Pull-loop termination: a read that has entered the pull loop returns:
\* with a decoded byte, with end-of-stream or with an error (the upstream
\* source is finite, and a decoder call that reports no error consumes at
\* least one byte).
C20_PullLoopTerminates ==
    (rpc = "pull") ~> (rpc = "idle" /\ ires \in {"byte", "eof", "error"})

\* inside the loop of a later read: an iteration has consumed the rest of
\* the buffer and produced nothing, and the upstream source holds more
C20_Witness ==
    /\ rpc = "pull" /\ ilife = "alive"
    /\ 0 < m_offset /\ m_offset = m_sourceBufferSize
    /\ m_source.data # <<>>
    /\ decoded # <<>>
    /\ DecCalls(iev) # <<>> /\ DecCalls(iev)[1].ret = <<>>

====
